---- MODULE Spec2Model ----
(***************************************************************************)
(* The chat client of the Orcutt Schools chatbot: the useChat hook         *)
(* (message log, session id, busy/error flags, current sources), the       *)
(* callers of its sendMessage/clearChat intents, and the gateway client's  *)
(* failure normalisation.                                                  *)
(*                                                                         *)
(* React state and closures: the hook's state cells hold the latest value  *)
(* written by a setter; sendMessage is a useCallback closure over the      *)
(* isLoading and sessionId of the render that created it, so its guard     *)
(* reads the rendered values (rIsLoading, rSessionId), which Render        *)
(* refreshes.  The continuation after the awaited gateway call only uses   *)
(* setters and the functional update of addMessage, so it acts on the      *)
(* latest state whatever happened while the call was in flight.            *)
(***************************************************************************)
EXTENDS Integers, Sequences, FiniteSets

VARIABLES
    messages,    \* useState([])   : the message log
    isLoading,   \* useState(false): the busy flag
    error,       \* useState(null) : the error flag (banner text)
    sources,     \* useState([])   : the current-sources view (sidebar)
    sessionId,   \* useState(() => generateSessionId())
    rIsLoading,  \* isLoading as captured by the rendered sendMessage closure
    rSessionId,  \* sessionId as captured by the rendered sendMessage closure
    inflight,    \* gateway calls issued and not yet settled
    calls,       \* number of gateway calls issued so far
    clock,       \* the last reading of Date.now()
    lastOp,      \* the operation that produced this state, its inputs, and the state before it
    err,         \* the axios failure handed to the response interceptor
    thrown,      \* the message of the Error the response interceptor threw
    session,     \* how fetchAuthSession() ends for the request being prepared
    request      \* the request that left the request interceptor

vars == <<messages, isLoading, error, sources, sessionId, rIsLoading, rSessionId,
          inflight, calls, clock, lastOp, err, thrown, session, request>>

chatVars == <<messages, isLoading, error, sources, sessionId, rIsLoading, rSessionId,
              inflight, calls, clock, lastOp>>

(***************************************************************************)
(* Bounds of the model.                                                    *)
(***************************************************************************)
\* gateway calls issued in one behaviour
MaxCalls == 2
\* distinct readings of Date.now() after the first
MaxTicks == 1

(***************************************************************************)
(* Values.                                                                 *)
(***************************************************************************)
\* JavaScript null in the error state cell
Null == "<null>"

\* texts typed by the user: strings as sequences of characters
Texts == { <<" ">>, <<" ", "a", " ">> }

IsSpace(c) == c = " "

RECURSIVE TrimStart(_)
TrimStart(s) ==
    IF s = <<>> THEN <<>>
    ELSE IF IsSpace(Head(s)) THEN TrimStart(Tail(s)) ELSE s

RECURSIVE TrimEnd(_)
TrimEnd(s) ==
    IF s = <<>> THEN <<>>
    ELSE IF IsSpace(s[Len(s)]) THEN TrimEnd(SubSeq(s, 1, Len(s) - 1)) ELSE s

\* String.prototype.trim
Trim(s) == TrimEnd(TrimStart(s))

Digits == <<"0", "1", "2", "3", "4", "5", "6", "7", "8", "9">>

\* Number.prototype.toString on a non-negative integer
RECURSIVE ToString(_)
ToString(n) ==
    IF n < 10 THEN <<Digits[n + 1]>>
    ELSE ToString(n \div 10) \o <<Digits[(n % 10) + 1]>>

\* generateSessionId with Date.now() reading `now`
generateSessionId(now) == ToString(now)

\* !sessionId : the empty string is the only falsy string
Falsy(s) == s = <<>>


(***************************************************************************)
(* Messages.  A message is {role, content, ...metadata}; the metadata keys *)
(* a message may lack (responseTime, sources, isError) are a flag and a    *)
(* value.  `turn` names the send that produced the message: it stands for  *)
(* the message's identity (id, timestamp), which no operation reads.       *)
(* Text is a sequence: typed text a sequence of characters, a literal a    *)
(* one-element sequence.                                                   *)
(***************************************************************************)
Str(s) == <<s>>

Apology ==
    Str("I apologize, but I encountered an error. Please try again or contact the school directly for assistance.")

\* addMessage('user', message)
UserMessage(message, turn) ==
    [role |-> "user", content |-> message, isError |-> FALSE,
     hasResponseTime |-> FALSE, responseTime |-> 0,
     hasSources |-> FALSE, sources |-> <<>>, turn |-> turn]

\* response.sources || []
SourcesOf(response) == IF response.hasSources THEN response.sources ELSE <<>>

\* addMessage('assistant', response.response, {responseTime, queryType, sources})
AssistantMessage(response, turn) ==
    [role |-> "assistant", content |-> response.response, isError |-> FALSE,
     hasResponseTime |-> response.hasResponseTime, responseTime |-> response.responseTime,
     hasSources |-> TRUE, sources |-> SourcesOf(response), turn |-> turn]

\* addMessage('assistant', <apology>, { isError: true })
ErrorMessage(turn) ==
    [role |-> "assistant", content |-> Apology, isError |-> TRUE,
     hasResponseTime |-> FALSE, responseTime |-> 0,
     hasSources |-> FALSE, sources |-> <<>>, turn |-> turn]

\* addMessage putting the new message in front of the log
addMessagePrepended(log, m) == <<m>> \o log

\* setMessages(prev => [...prev, newMessage])
addMessage(log, m) == Append(log, m)

(***************************************************************************)
(* What the gateway can answer.                                            *)
(***************************************************************************)
\* a 2xx answer with success = true
Success(hasTime, time, hasList, list) ==
    [success |-> TRUE, response |-> Str("answer"),
     hasResponseTime |-> hasTime, responseTime |-> time,
     hasSources |-> hasList, sources |-> list,
     hasError |-> FALSE, error |-> ""]

SuccessPayloads ==
    { Success(TRUE, 0, FALSE, <<>>),
      Success(TRUE, 2, TRUE, <<"handbook.pdf">>),
      Success(TRUE, 4, TRUE, <<"calendar.pdf">>) }

ErrorTexts == {"", "Guardrail violation"}

\* payloads of a 2xx answer whose success field is not true
RefusalPayloads ==
    { [success |-> FALSE, response |-> Str(""),
       hasResponseTime |-> FALSE, responseTime |-> 0,
       hasSources |-> FALSE, sources |-> <<>>,
       hasError |-> h, error |-> e] :
         h \in BOOLEAN, e \in ErrorTexts } \ 
    { [success |-> FALSE, response |-> Str(""),
       hasResponseTime |-> FALSE, responseTime |-> 0,
       hasSources |-> FALSE, sources |-> <<>>,
       hasError |-> FALSE, error |-> "Guardrail violation"] }

Payloads == SuccessPayloads \cup RefusalPayloads

\* the refusal always reported with the default text
RefusalMessageGeneric(response) == "Failed to get response"

\* response.error || 'Failed to get response'
RefusalMessage(response) ==
    IF response.hasError /\ response.error # "" THEN response.error
    ELSE "Failed to get response"


(***************************************************************************)
(* The gateway client's response interceptor: one axios failure in, one    *)
(* Error out.  An axios failure has a code, maybe a response (status and   *)
(* maybe a data payload with maybe an error field), maybe a request.       *)
(***************************************************************************)
ErrorCodes == {"ECONNABORTED", "ERR_NETWORK", "ERR_BAD_RESPONSE"}

Statuses == {401, 403, 404, 500}

AxiosErrors ==
    [code : ErrorCodes, hasResponse : BOOLEAN, status : Statuses,
     hasData : BOOLEAN, hasError : BOOLEAN, error : ErrorTexts, hasRequest : BOOLEAN]

\* stands in the err cell while no failure is being normalised
NoAxiosError ==
    [code |-> "none", hasResponse |-> FALSE, status |-> 0,
     hasData |-> FALSE, hasError |-> FALSE, error |-> "", hasRequest |-> FALSE]

\* error.response.data?.error || 'Server error occurred'
ServerMessage(e) ==
    IF e.hasData /\ e.hasError /\ e.error # "" THEN e.error
    ELSE "Server error occurred"

\* the interceptor looking at the response before the timeout code
NormalizeResponseFirst(e) ==
    IF e.hasResponse THEN
        IF e.status = 401 THEN "Authentication failed - please sign in again"
        ELSE IF e.status = 403 THEN "Access forbidden - insufficient permissions"
        ELSE ServerMessage(e)
    ELSE IF e.code = "ECONNABORTED" THEN "Request timeout - please try again"
    ELSE IF e.hasRequest THEN "Network error - please check your connection"
    ELSE "An unexpected error occurred"

\* the rejection handler of apiClient.interceptors.response
Normalize(e) ==
    IF e.code = "ECONNABORTED" THEN "Request timeout - please try again"
    ELSE IF e.hasResponse THEN
        IF e.status = 401 THEN "Authentication failed - please sign in again"
        ELSE IF e.status = 403 THEN "Access forbidden - insufficient permissions"
        ELSE ServerMessage(e)
    ELSE IF e.hasRequest THEN "Network error - please check your connection"
    ELSE "An unexpected error occurred"

\* the failures the gateway meets in a conversation: a timeout, an error status
\* with an error payload, and a request that got no response
GatewayFailures ==
    { e \in AxiosErrors :
        /\ e.code \in {"ECONNABORTED", "ERR_NETWORK"}
        /\ e.status = 500 /\ e.hasData /\ e.hasError /\ e.error # "" /\ e.hasRequest }

\* chatService.sendMessage rethrows what the interceptor threw
FailureMessages == { Normalize(e) : e \in GatewayFailures }

(***************************************************************************)
(* The gateway client's request interceptor.  fetchAuthSession() throws,   *)
(* or returns a session that may hold tokens, which may hold an idToken.   *)
(* Headers are a set of <<name, value>> pairs.                             *)
(***************************************************************************)
Tokens == {"", "eyJhbGciOi.a", "eyJhbGciOi.b"}

Sessions == [throws : BOOLEAN, hasTokens : BOOLEAN, hasIdToken : BOOLEAN, token : Tokens]

\* stands in the session cell while no request is being prepared
NoSession == [throws |-> FALSE, hasTokens |-> FALSE, hasIdToken |-> FALSE, token |-> "none"]

\* config.headers as axios hands them to the interceptor
ConfigHeaders ==
    { {},
      {<<"Accept", "application/json, text/plain, */*">>},
      {<<"Accept", "application/json, text/plain, */*">>, <<"Content-Type", "text/plain">>} }

NoRequest == [method |-> "none", url |-> "", headers |-> {}, sent |-> FALSE]

\* session.tokens?.idToken?.toString(), with if (token): undefined and '' are falsy
HasToken(s) == s.hasTokens /\ s.hasIdToken /\ s.token # ""

ContentTypeOnly == {<<"Content-Type", "application/json">>}

\* `Bearer ${token}`
Bearer(token) == <<"Bearer ", token>>

\* getAuthHeaders without its try/catch: a throwing fetchAuthSession escapes
getAuthHeadersUnguarded(s) ==
    IF s.throws THEN [threw |-> TRUE, headers |-> {}]
    ELSE IF HasToken(s)
         THEN [threw |-> FALSE,
               headers |-> ContentTypeOnly \cup {<<"Authorization", Bearer(s.token)>>}]
         ELSE [threw |-> FALSE, headers |-> ContentTypeOnly]

\* getAuthHeaders: what it returns, and whether it threw
getAuthHeaders(s) ==
    IF s.throws THEN [threw |-> FALSE, headers |-> ContentTypeOnly]
    ELSE IF HasToken(s)
         THEN [threw |-> FALSE,
               headers |-> ContentTypeOnly \cup {<<"Authorization", Bearer(s.token)>>}]
         ELSE [threw |-> FALSE, headers |-> ContentTypeOnly]

\* { ...config.headers, ...authHeaders }
Spread(base, over) ==
    { h \in base : \A o \in over : o[1] # h[1] } \cup over

\* the request interceptor: the request leaves with the merged headers, or
\* is abandoned when awaiting the auth headers throws
Prepare(method, url, headers) ==
    LET authHeaders == getAuthHeaders(session)
    IN  IF authHeaders.threw
        THEN [method |-> method, url |-> url, headers |-> headers, sent |-> FALSE]
        ELSE [method |-> method, url |-> url,
              headers |-> Spread(headers, authHeaders.headers), sent |-> TRUE]

\* chatService.sendMessage: apiClient.post('/chat', ...)
PostChat ==
    /\ session # NoSession
    /\ request.method = "none"
    /\ request' = Prepare("POST", "/chat", request.headers)
    /\ UNCHANGED <<chatVars, err, thrown, session>>

\* chatService.getSourceUrl: apiClient.get(`/sources/${sourceId}`, ...)
GetSourceUrl ==
    /\ session # NoSession
    /\ request.method = "none"
    /\ request' = Prepare("GET", "/sources/1", request.headers)
    /\ UNCHANGED <<chatVars, err, thrown, session>>

(***************************************************************************)
(* The hook.                                                               *)
(***************************************************************************)
Snapshot ==
    [messages |-> messages, isLoading |-> isLoading, error |-> error,
     sources |-> sources, sessionId |-> sessionId, calls |-> calls]

NoCall ==
    [turn |-> 0, message |-> <<>>, sessionId |-> <<>>, text |-> <<>>,
     preLog |-> <<>>, preSources |-> <<>>, disturbed |-> FALSE]

NoPayload ==
    [success |-> FALSE, response |-> Str(""),
     hasResponseTime |-> FALSE, responseTime |-> 0,
     hasSources |-> FALSE, sources |-> <<>>,
     hasError |-> FALSE, error |-> ""]

\* what the guard of sendMessage reads from its closure
Seen == [isLoading |-> rIsLoading, sessionId |-> rSessionId]

Unseen == [isLoading |-> FALSE, sessionId |-> <<>>]

Op(kind, text, seen, accepted, call, response, failure) ==
    [kind |-> kind, text |-> text, seen |-> seen, accepted |-> accepted, call |-> call,
     response |-> response, failure |-> failure, before |-> Snapshot]

Idle == [kind |-> "none", text |-> <<>>, seen |-> Unseen, accepted |-> FALSE, call |-> NoCall,
         response |-> NoPayload, failure |-> Null,
         before |-> [messages |-> <<>>, isLoading |-> FALSE, error |-> Null,
                     sources |-> <<>>, sessionId |-> <<>>, calls |-> 0]]

\* every call still in flight has seen another operation act on the hook
Disturb(cs) == { [c EXCEPT !.disturbed = TRUE] : c \in cs }

\* the guard without the trim: whitespace counts as text
RejectsUntrimmed(message) == Falsy(message) \/ rIsLoading \/ Falsy(rSessionId)

\* if (!message.trim() || isLoading || !sessionId) return;
Rejects(message) == Falsy(Trim(message)) \/ rIsLoading \/ Falsy(rSessionId)

\* chatService.sendMessage(message, sessionId): the request and what the
\* hook held when it was issued
Call(message) ==
    [turn |-> calls + 1, message |-> Trim(message), sessionId |-> rSessionId,
     text |-> message, preLog |-> messages, preSources |-> sources,
     disturbed |-> FALSE]

\* sendMessage up to the await: setError(null); addMessage('user', message);
\* setIsLoading(true); chatService.sendMessage(message, sessionId)
Issue(kind, message) ==
    /\ error' = Null
    /\ messages' = addMessage(messages, UserMessage(message, calls + 1))
    /\ isLoading' = TRUE
    /\ inflight' = Disturb(inflight) \cup {Call(message)}
    /\ calls' = calls + 1
    /\ lastOp' = Op(kind, message, Seen, TRUE, Call(message), NoPayload, Null)
    /\ UNCHANGED sources

\* the hook's send intent
sendMessage(message) ==
    /\ calls < MaxCalls
    /\ IF Rejects(message)
       THEN /\ lastOp' = Op("send", message, Seen, FALSE, NoCall, NoPayload, Null)
            /\ UNCHANGED <<messages, isLoading, error, sources, inflight, calls>>
       ELSE Issue("send", message)
    /\ UNCHANGED <<sessionId, rIsLoading, rSessionId, clock, err, thrown, session, request>>

\* ChatInput: if (!message.trim() || isLoading || disabled) return; onSendMessage(message)
\* (isLoading is the prop of the same render as the sendMessage it is given)
handleSubmit(message) ==
    IF Falsy(Trim(message)) \/ rIsLoading
    THEN UNCHANGED vars
    ELSE sendMessage(message)

\* the sources added to the view instead of replacing it
NextSourcesAppended(current, response) == current \o SourcesOf(response)

\* setSources(response.sources || [])
NextSources(current, response) == SourcesOf(response)

\* the catch block showing the raw error in the log
CatchShowingError(c, message) ==
    /\ error' = message
    /\ messages' = addMessage(messages, [ErrorMessage(c.turn) EXCEPT !.content = Str(message)])
    /\ UNCHANGED sources

\* the catch block also emptying the sources view
CatchClearingSources(c, message) ==
    /\ error' = message
    /\ messages' = addMessage(messages, ErrorMessage(c.turn))
    /\ sources' = <<>>

\* catch (err): setError(err.message); addMessage('assistant', <apology>, {isError: true})
Catch(c, message) ==
    /\ error' = message
    /\ messages' = addMessage(messages, ErrorMessage(c.turn))
    /\ UNCHANGED sources

\* the finally block left out: the busy flag keeps its value
FinallyMissing == isLoading

\* finally: setIsLoading(false)
Finally == FALSE

\* the awaited gateway call returns a payload
Resolve(c, response) ==
    /\ IF response.success
       THEN /\ messages' = addMessage(messages, AssistantMessage(response, c.turn))
            /\ sources' = NextSources(sources, response)
            /\ UNCHANGED error
            /\ lastOp' = Op("resolve", c.text, Unseen, TRUE, c, response, Null)
       ELSE /\ Catch(c, RefusalMessage(response))
            /\ lastOp' = Op("refuse", c.text, Unseen, TRUE, c, response, RefusalMessage(response))
    /\ isLoading' = Finally
    /\ inflight' = Disturb(inflight \ {c})
    /\ UNCHANGED <<sessionId, rIsLoading, rSessionId, calls, clock, err, thrown, session, request>>

\* the awaited gateway call throws the interceptor's Error
Reject(c, message) ==
    /\ Catch(c, message)
    /\ lastOp' = Op("reject", c.text, Unseen, TRUE, c, NoPayload, message)
    /\ isLoading' = Finally
    /\ inflight' = Disturb(inflight \ {c})
    /\ UNCHANGED <<sessionId, rIsLoading, rSessionId, calls, clock, err, thrown, session, request>>

\* the reading of Date.now() when the hook is initialised
FirstReading == 1

\* the readings Date.now() can return: never earlier than the last one
Readings == clock .. (FirstReading + MaxTicks)

\* the hook's clear intent, Date.now() reading `now`
clearChat(now) ==
    /\ messages' = <<>>
    /\ sources' = <<>>
    /\ error' = Null
    /\ sessionId' = generateSessionId(now)
    /\ clock' = now
    /\ inflight' = Disturb(inflight)
    /\ lastOp' = Op("clear", <<>>, Unseen, TRUE, NoCall, NoPayload, Null)
    /\ UNCHANGED <<isLoading, rIsLoading, rSessionId, calls, err, thrown, session, request>>

\* React commits the state: the next sendMessage closes over the new values
Render ==
    /\ <<rIsLoading, rSessionId>> # <<isLoading, sessionId>>
    /\ rIsLoading' = isLoading
    /\ rSessionId' = sessionId
    /\ UNCHANGED <<messages, isLoading, error, sources, sessionId, inflight, calls,
                   clock, lastOp, err, thrown, session, request>>

\* the state after the hook's first render
Init ==
    /\ messages = <<>>
    /\ isLoading = FALSE
    /\ error = Null
    /\ sources = <<>>
    /\ clock = FirstReading
    /\ sessionId = generateSessionId(clock)
    /\ rIsLoading = FALSE
    /\ rSessionId = generateSessionId(clock)
    /\ inflight = {}
    /\ calls = 0
    /\ lastOp = Idle
    /\ err = NoAxiosError
    /\ thrown = Null
    /\ session = NoSession
    /\ request = NoRequest

Next ==
    \/ \E message \in Texts : sendMessage(message)
    \/ \E message \in Texts : handleSubmit(message)
    \/ \E c \in inflight, response \in Payloads : Resolve(c, response)
    \/ \E c \in inflight, message \in FailureMessages : Reject(c, message)
    \/ \E now \in Readings : clearChat(now)
    \/ Render

Spec == Init /\ [][Next]_vars

\* the answers that tell the ways a call can end apart: one success, one
\* refusal (success not true)
EndingPayloads ==
    { Success(TRUE, 2, TRUE, <<"handbook.pdf">>),
      [success |-> FALSE, response |-> Str(""),
       hasResponseTime |-> FALSE, responseTime |-> 0,
       hasSources |-> FALSE, sources |-> <<>>,
       hasError |-> FALSE, error |-> ""] }

\* the awaited gateway call of some send settles: it returns, or it throws (the
\* client's 30 second timeout ends a call that gets no answer)
Settle ==
    \/ \E c \in inflight, response \in EndingPayloads : Resolve(c, response)
    \/ \E c \in inflight, message \in FailureMessages : Reject(c, message)

NextFair ==
    \/ \E message \in Texts : sendMessage(message)
    \/ \E message \in Texts : handleSubmit(message)
    \/ Settle
    \/ \E now \in Readings : clearChat(now)
    \/ Render

\* the hook with its scheduling: every awaited call settles, and React
\* renders the state it was given
FairSpec == Init /\ [][NextFair]_vars /\ WF_vars(Settle) /\ WF_vars(Render)

(***************************************************************************)
(* The response interceptor on its own: any axios failure is handed to it  *)
(* and it throws once.                                                     *)
(***************************************************************************)
Intercept ==
    /\ err # NoAxiosError
    /\ thrown = Null
    /\ thrown' = Normalize(err)
    /\ UNCHANGED <<chatVars, err, session, request>>

InitErr ==
    /\ messages = <<>>
    /\ isLoading = FALSE
    /\ error = Null
    /\ sources = <<>>
    /\ clock = FirstReading
    /\ sessionId = generateSessionId(clock)
    /\ rIsLoading = FALSE
    /\ rSessionId = generateSessionId(clock)
    /\ inflight = {}
    /\ calls = 0
    /\ lastOp = Idle
    /\ err \in AxiosErrors
    /\ thrown = Null
    /\ session = NoSession
    /\ request = NoRequest

NextErr == Intercept

SpecErr == InitErr /\ [][NextErr]_vars

(***************************************************************************)
(* The request interceptor on its own: a request is prepared while the     *)
(* identity collaborator answers in any of its ways.                       *)
(***************************************************************************)
InitAuth ==
    /\ messages = <<>>
    /\ isLoading = FALSE
    /\ error = Null
    /\ sources = <<>>
    /\ clock = FirstReading
    /\ sessionId = generateSessionId(clock)
    /\ rIsLoading = FALSE
    /\ rSessionId = generateSessionId(clock)
    /\ inflight = {}
    /\ calls = 0
    /\ lastOp = Idle
    /\ err = NoAxiosError
    /\ thrown = Null
    /\ session \in Sessions
    /\ request \in { [NoRequest EXCEPT !.headers = h] : h \in ConfigHeaders }

NextAuth == PostChat \/ GetSourceUrl

SpecAuth == InitAuth /\ [][NextAuth]_vars

(***************************************************************************)
(* Metrics.  A quotient is a pair num/den; two are equal when the cross    *)
(* products are.                                                           *)
(***************************************************************************)
RECURSIVE Sum(_)
Sum(ts) == IF ts = <<>> THEN 0 ELSE Head(ts) + Sum(Tail(ts))

\* msg.role === 'assistant' && msg.responseTime : undefined and 0 are falsy
CountsForAverage(msg) ==
    msg.role = "assistant" /\ msg.hasResponseTime /\ msg.responseTime # 0

\* .map(msg => msg.responseTime)
TimesOf(log) == [i \in 1..Len(log) |-> log[i].responseTime]

getAverageResponseTime(log) ==
    LET responseTimes == TimesOf(SelectSeq(log, CountsForAverage))
    IN  IF Len(responseTimes) = 0 THEN [num |-> 0, den |-> 1]
        ELSE [num |-> Sum(responseTimes), den |-> Len(responseTimes)]

SameQuotient(a, b) == a.num * b.den = b.num * a.den

(***************************************************************************)
(* Properties of the hook and of the interceptor.                          *)
(***************************************************************************)
\* text that is empty after trimming: nothing but spaces
Blank(text) == \A i \in 1..Len(text) : text[i] = " "

Last(log) == log[Len(log)]

FixedApology ==
    <<"I apologize, but I encountered an error. Please try again or contact the school directly for assistance.">>

\* C1: in every reachable state at most one gateway call is in flight, also
\* when two sends are issued back-to-back before the hook re-renders.
C1_AtMostOneCallInFlight == Cardinality(inflight) <= 1

\* C2: a send whose text is blank after trimming, or that sees busy
\* (isLoading) true, or that sees no sessionId, changes nothing: log,
\* sessionId, error flag, sources and busy flag are as before, no gateway
\* call is issued and no error is surfaced.
C2_RejectedSendChangesNothing ==
    (/\ lastOp.kind = "send"
     /\ \/ Blank(lastOp.text)
        \/ lastOp.seen.isLoading
        \/ lastOp.seen.sessionId = <<>>)
    => /\ messages = lastOp.before.messages
       /\ sessionId = lastOp.before.sessionId
       /\ error = lastOp.before.error
       /\ sources = lastOp.before.sources
       /\ isLoading = lastOp.before.isLoading
       /\ calls = lastOp.before.calls
       /\ lastOp.call = NoCall

\* a send with text, refused because it saw busy = true while a call is in flight
C2_Witness ==
    /\ lastOp.kind = "send"
    /\ lastOp.seen.isLoading
    /\ ~Blank(lastOp.text)
    /\ isLoading
    /\ Len(messages) = 1

\* C3: when the gateway call of an accepted send(text) fails with message M,
\* the failure appends exactly one assistant message with isError = true whose
\* content is the fixed apology and not M, sets the error flag to M, sets
\* busy = false and leaves the sources alone; for an exchange that no other
\* operation on the hook interleaves, the log is the log before the send plus
\* the user message with content text and that error message, and the sources
\* are what they were before the send.
C3_FailedExchange ==
    lastOp.kind = "reject" =>
        LET c == lastOp.call
            M == lastOp.failure
            m == Last(messages)
        IN  /\ Len(messages) = Len(lastOp.before.messages) + 1
            /\ SubSeq(messages, 1, Len(messages) - 1) = lastOp.before.messages
            /\ m.role = "assistant" /\ m.isError
            /\ m.content = FixedApology /\ m.content # <<M>>
            /\ ~m.hasSources /\ ~m.hasResponseTime
            /\ error = M
            /\ isLoading = FALSE
            /\ sources = lastOp.before.sources
            /\ ~c.disturbed =>
                 /\ Len(messages) = Len(c.preLog) + 2
                 /\ SubSeq(messages, 1, Len(c.preLog)) = c.preLog
                 /\ messages[Len(c.preLog) + 1].role = "user"
                 /\ messages[Len(c.preLog) + 1].content = c.text
                 /\ ~messages[Len(c.preLog) + 1].isError
                 /\ sources = c.preSources

\* a failed exchange after a turn that left sources in the view
C3_Witness ==
    /\ lastOp.kind = "reject"
    /\ ~lastOp.call.disturbed
    /\ lastOp.failure = "Guardrail violation"
    /\ lastOp.call.preSources # <<>>
    /\ Len(messages) = 4

\* the sources a payload gives: its sources field, or none
Given(response) == IF response.hasSources THEN response.sources ELSE <<>>

\* C4: when the gateway call of an accepted send succeeds with sources S (or
\* with no sources field), the current sources afterwards are exactly S (or
\* empty) whatever they were before, and the appended assistant message
\* carries the same S.
C4_SourcesReplaced ==
    lastOp.kind = "resolve" =>
        /\ sources = Given(lastOp.response)
        /\ Len(messages) = Len(lastOp.before.messages) + 1
        /\ SubSeq(messages, 1, Len(messages) - 1) = lastOp.before.messages
        /\ Last(messages).role = "assistant"
        /\ ~Last(messages).isError
        /\ Last(messages).hasSources
        /\ Last(messages).sources = Given(lastOp.response)
        /\ Last(messages).content = lastOp.response.response

\* a success that replaces a non-empty view with different sources
C4_Witness ==
    /\ lastOp.kind = "resolve"
    /\ lastOp.before.sources # <<>>
    /\ lastOp.response.hasSources
    /\ lastOp.response.sources # <<>>
    /\ lastOp.response.sources # lastOp.before.sources

\* C5: from an empty log, once N accepted sends have all completed
\* successfully with no clear() in between, the log has length 2N and
\* alternates user, assistant, ..., the i-th assistant message answering the
\* i-th user message.
C5_AlternatingLog ==
    (/\ inflight = {}
     /\ Len(messages) = 2 * calls
     /\ \A i \in 1..Len(messages) : ~messages[i].isError)
    => \A i \in 1..calls :
         /\ messages[2 * i - 1].role = "user"
         /\ messages[2 * i - 1].turn = i
         /\ messages[2 * i].role = "assistant"
         /\ messages[2 * i].turn = i

\* C6: after clear() in any state the log is empty, the sources are empty,
\* the error flag is cleared and sessionId differs from the one before.
C6_ClearGivesNewSession ==
    lastOp.kind = "clear" =>
        /\ messages = <<>>
        /\ sources = <<>>
        /\ error = Null
        /\ sessionId # lastOp.before.sessionId

\* C7: in every reachable state every assistant message of the log is
\* immediately preceded by the user message of the send that produced it.
C7_AssistantFollowsItsUser ==
    \A i \in 1..Len(messages) :
        messages[i].role = "assistant" =>
            /\ i > 1
            /\ messages[i - 1].role = "user"
            /\ messages[i - 1].turn = messages[i].turn

\* the six outcomes, named by the message the interceptor throws
Timeout == "Request timeout - please try again"
AuthenticationFailed == "Authentication failed - please sign in again"
AccessForbidden == "Access forbidden - insufficient permissions"
GenericServerError == "Server error occurred"
NetworkError == "Network error - please check your connection"
UnexpectedError == "An unexpected error occurred"

\* the outcome the priority list gives, the payload's error field counting as
\* present when `present` says so
Outcome(e, present) ==
    IF e.code = "ECONNABORTED" THEN Timeout
    ELSE IF e.hasResponse /\ e.status = 401 THEN AuthenticationFailed
    ELSE IF e.hasResponse /\ e.status = 403 THEN AccessForbidden
    ELSE IF e.hasResponse THEN (IF present THEN e.error ELSE GenericServerError)
    ELSE IF e.hasRequest THEN NetworkError
    ELSE UnexpectedError

\* C8 as stated: every failure is normalised to the one outcome the priority
\* list gives, a ServerError carrying the payload's error field if present.
C8_OutcomeByPriority ==
    thrown # Null => thrown = Outcome(err, err.hasData /\ err.hasError)

\* C8 as amended: a ServerError carries the payload's error field if it is
\* present and not the empty string, else the generic label.
C8_OutcomeByPriorityNonEmpty ==
    thrown # Null =>
        thrown = Outcome(err, err.hasData /\ err.hasError /\ err.error # "")

\* a timeout that also has a 401 response, normalised
C8_Witness ==
    /\ thrown = Timeout
    /\ err.hasResponse
    /\ err.status = 401

\* the response times the assistant messages of the log carry
Carried(log) ==
    LET carrying(msg) == msg.role = "assistant" /\ msg.hasResponseTime
    IN  TimesOf(SelectSeq(log, carrying))

\* C9: averageResponseTime() is the mean of responseTime over the assistant
\* messages that carry one (a responseTime of 0 included), and 0 when none
\* carries one.
C9_AverageIsMean ==
    LET ts == Carried(messages)
    IN  SameQuotient(getAverageResponseTime(messages),
                     IF Len(ts) = 0 THEN [num |-> 0, den |-> 1]
                     ELSE [num |-> Sum(ts), den |-> Len(ts)])

\* the sources of the last message of the log that satisfies `which`, none if
\* no message does
LastSources(log, which(_)) ==
    LET found == SelectSeq(log, which)
    IN  IF found = <<>> THEN <<>>
        ELSE IF Last(found).hasSources THEN Last(found).sources
        ELSE <<>>

IsAssistant(msg) == msg.role = "assistant"

IsAnswer(msg) == msg.role = "assistant" /\ ~msg.isError

\* C10 as stated: with no send in flight, the current sources are those of
\* the most recent assistant message, and empty when there is none.
C10_SourcesOfLastAssistant ==
    inflight = {} => sources = LastSources(messages, IsAssistant)

\* C10 as amended: with no send in flight, the current sources are those of
\* the most recent assistant message that is not an error message, and empty
\* when there is none.
C10_SourcesOfLastAnswer ==
    inflight = {} => sources = LastSources(messages, IsAnswer)

\* a failed turn after a turn that left sources in the view
C10_Witness ==
    /\ inflight = {}
    /\ lastOp.kind = "reject"
    /\ sources # <<>>
    /\ Last(messages).isError

\* a send with text would pass the guard of the rendered sendMessage
Accepts == ~rIsLoading /\ rSessionId # <<>>

\* C11: busy is true only while a gateway call is in flight, and once busy is
\* true it becomes false again when the call completes (success or failure);
\* the hook then renders busy = false, and a further send with text is
\* accepted.  busy never stays true forever.
C11_BusyEnds ==
    /\ [](isLoading => inflight # {})
    /\ isLoading ~> (~isLoading /\ Accepts)

\* a send accepted after a failed turn
C11_Witness ==
    /\ lastOp.kind = "send"
    /\ lastOp.accepted
    /\ Len(messages) = 3
    /\ messages[2].isError
    /\ lastOp.before.error # Null
    /\ Cardinality(inflight) = 1

\* the identity collaborator yields a token: it does not throw and the
\* session holds an idToken that is not the empty string
TokenAvailable(s) == ~s.throws /\ s.hasTokens /\ s.hasIdToken /\ s.token # ""

Authorizations(r) == { h \in r.headers : h[1] = "Authorization" }

\* C12: whatever the identity collaborator does, sendMessage and getSourceUrl
\* issue their request; it carries Authorization: Bearer <token> when a token
\* is available and no Authorization header when none is or when fetching it
\* throws.
C12_RequestIssuedWithOrWithoutToken ==
    request.method # "none" =>
        /\ request.sent
        /\ request.method \in {"POST", "GET"}
        /\ IF TokenAvailable(session)
           THEN Authorizations(request) = {<<"Authorization", <<"Bearer ", session.token>> >>}
           ELSE Authorizations(request) = {}

\* a chat request issued without Authorization after fetchAuthSession threw
C12_Witness ==
    /\ request.method = "POST"
    /\ request.sent
    /\ session.throws
    /\ Authorizations(request) = {}

IsPrefix(s, t) == Len(s) <= Len(t) /\ SubSeq(t, 1, Len(s)) = s

\* C13: every step other than clear() leaves the log it found as a prefix of
\* the log it leaves, and leaves sessionId as it was.
C13_AppendOnlyBetweenClears ==
    [][ \/ \E now \in Readings : clearChat(now)
        \/ /\ IsPrefix(messages, messages')
           /\ sessionId' = sessionId ]_vars

\* a gateway success that appended to a log already holding an exchange
C13_Witness ==
    /\ lastOp.kind = "resolve"
    /\ Len(lastOp.before.messages) = 3
    /\ Len(messages) = 4
    /\ IsPrefix(lastOp.before.messages, messages)
    /\ sessionId = lastOp.before.sessionId

\* the last operation was the completion of a gateway call
Completed == lastOp.kind \in {"resolve", "refuse", "reject"}

\* C14: the completion of a call requested under another session than the
\* current one appends nothing to the log, leaves the current sources and
\* leaves the error flag; a log emptied by clear() is still empty after a
\* completion.
C14_ResultOnlyForItsSession ==
    /\ (Completed /\ lastOp.call.sessionId # lastOp.before.sessionId) =>
           /\ messages = lastOp.before.messages
           /\ sources = lastOp.before.sources
           /\ error = lastOp.before.error
    /\ (Completed /\ lastOp.before.messages = <<>>) => messages = <<>>

\* what the log, the sources and busy are after a payload without success
RefusedLikeFailure ==
    LET m == Last(messages)
    IN  /\ Len(messages) = Len(lastOp.before.messages) + 1
        /\ SubSeq(messages, 1, Len(messages) - 1) = lastOp.before.messages
        /\ m.role = "assistant" /\ m.isError
        /\ m.content = FixedApology
        /\ ~m.hasSources /\ ~m.hasResponseTime
        /\ sources = lastOp.before.sources
        /\ isLoading = FALSE

\* C15 as stated: a payload whose success is not true is handled like a
\* failure, and the error flag is the payload's error field if the field is
\* present, else 'Failed to get response'.
C15_RefusalHandledAsFailure ==
    lastOp.kind = "refuse" =>
        /\ ~lastOp.response.success
        /\ RefusedLikeFailure
        /\ error = IF lastOp.response.hasError THEN lastOp.response.error
                   ELSE "Failed to get response"

\* C15 amended: the error flag is the payload's error field if it is present
\* and not the empty string, else 'Failed to get response'.
C15_RefusalHandledAsFailureNonEmpty ==
    lastOp.kind = "refuse" =>
        /\ ~lastOp.response.success
        /\ RefusedLikeFailure
        /\ error = IF lastOp.response.hasError /\ lastOp.response.error # ""
                   THEN lastOp.response.error
                   ELSE "Failed to get response"

\* a refusal carrying its own error text, after a turn that left sources
C15_Witness ==
    /\ lastOp.kind = "refuse"
    /\ lastOp.response.hasError
    /\ error = "Guardrail violation"
    /\ Len(messages) = 4
    /\ Last(messages).isError
    /\ sources # <<>>

====
